---- MODULE Spec2Model ----
(***************************************************************************)
(* EchoTube delivery core: the duplicate-suppression cache (VideoCache)    *)
(* and the per-webhook rate-limited dispatch queue (DiscordWebhook) with   *)
(* its fan-out (MultiDiscordWebhook).                                      *)
(*                                                                         *)
(* CacheSpec : VideoCache driven by the cycle processor's call             *)
(*             videoCache.processVideos(videos, isInitialRun(), mode).     *)
(* Spec      : the dispatch side, one event-loop turn per step.            *)
(***************************************************************************)
EXTENDS Integers, Sequences, FiniteSets, TLC

VARIABLES
    runMode,                \* the run mode the configuration selects: production, development or test
    seenVideoIds,           \* VideoCache.seenVideoIds (Set)
    latestVideoTimestamps,  \* VideoCache.latestVideoTimestamps (Map sourceKey -> ISO string)
    call,                   \* the last VideoCache.processVideos call: arguments, seen before, result
    now,                    \* Date.now(), in ms
    webhooks,               \* MultiDiscordWebhook.webhooks: the DiscordWebhook objects, their worker
                            \* loops and the record of what each has put on the wire
    batches,                \* the MultiDiscordWebhook.postVideoNotifications calls and their position
    server,                 \* per webhook URL, the responses the remote end gives
    cacheFile,              \* VideoCache.cacheFile: the path of the state file, NoFile when memory-only
    disk,                   \* what the file system holds at that path
    lastSaveTime,           \* VideoCache.lastSaveTime
    writes,                 \* the VideoCache.save calls that wait for fs.writeFile
    written,                \* where the content of the file comes from, and when the non-forced
                            \* saves wrote
    proc,                   \* the process: the module variables of index.js, the position of
                            \* gracefulShutdown, and what has happened to the cycles
    cycles,                 \* the performPollingCycle calls that have not returned
    feed,                   \* how many videos the feeds hold
    past                    \* what the earlier processes delivered: <<video id, webhook>>

cacheVars == <<runMode, seenVideoIds, latestVideoTimestamps, call>>
dispatchVars == <<now, webhooks, batches, server>>
storeVars == <<cacheFile, disk, lastSaveTime, writes, written>>
processVars == <<proc, cycles, feed, past>>
vars == <<runMode, seenVideoIds, latestVideoTimestamps, call, now, webhooks, batches, server,
          cacheFile, disk, lastSaveTime, writes, written, proc, cycles, feed, past>>

----------------------------------------------------------------------------
(* Bounds *)

MaxVideoId == 3     \* distinct video identities in the feeds
MaxVideos == 3      \* longest item list handed to processVideos
MaxPayloads == 2    \* videos that overlapping postVideoNotifications calls deliver in all
MaxBurst == 6       \* longest delivery list posted to a webhook that accepts everything
MaxWebhooks == 2    \* most webhook URLs configured
MaxFanLen == 2      \* videos that overlapping calls fan out to several webhooks in all
MaxTime == 7000     \* the clock stops here
TickMs == 1000      \* resolution of the clock
MaxLatency == 0     \* longest an HTTP POST takes to settle, in ms
MaxEntries == 2     \* largest maxEntries handed to cleanup
MaxWrites == 2      \* most save calls that wait for their write at one time
StoreTickMs == 30000    \* resolution of the clock between saves
MaxStoreTime == 60000   \* the clock of the saves stops here
MaxStarts == 2      \* times the process is started
MaxCycles == 2      \* polling cycles of one process
MaxFeed == 2        \* videos the feeds come to hold

----------------------------------------------------------------------------
(* Feed items (parseRSSFeed / fetchAllVideos) *)

\* A video identity is a string, written as its sequence of code units.
IdOf(n) == IF n <= 2 THEN <<n>> ELSE <<((n - 1) % 2) + 1, n>>

VideoIds == {IdOf(n) : n \in 1..MaxVideoId}

\* `${video.sourceType}:${video.sourceId}`
SourceKey(video) == <<video.sourceType, ":", video.sourceId>>

\* video number n as the feed of its channel, or of the playlist, gives it
Video(n, sourceType) ==
    [id |-> IdOf(n), sourceType |-> sourceType,
     sourceId |-> IF sourceType = "channel" THEN (n % 2) + 1 ELSE 1,
     published |-> 1000 * n]

\* Every video is in the feed of its channel; the odd ones are in a playlist too.
Videos ==
    {Video(n, "channel") : n \in 1..MaxVideoId}
    \cup
    {Video(n, "playlist") : n \in {m \in 1..MaxVideoId : m % 2 = 1}}

SourceKeys == {SourceKey(v) : v \in Videos}

\* fetchAllVideos sorts the combined list newest first.
NewestFirst(videos) ==
    \A i \in 1..Len(videos) : \A j \in 1..Len(videos) :
        i < j => videos[i].published >= videos[j].published

Distinct(videos) ==
    \A i \in 1..Len(videos) : \A j \in 1..Len(videos) : i # j => videos[i] # videos[j]

VideoLists ==
    {videos \in UNION {[1..n -> Videos] : n \in 0..MaxVideos} :
        NewestFirst(videos) /\ Distinct(videos)}

Modes == {"production", "development", "test"}

Ids(videos) == {videos[i].id : i \in 1..Len(videos)}

----------------------------------------------------------------------------
(* VideoCache *)

\* A Date is its epoch ms; new Date(date) copies it, new Date(isoString) parses the string.
DateOf(date) == date

DateParse(isoString) == isoString[2]

\* Date.prototype.toISOString
toISOString(ms) == <<"iso", ms>>

\* a cache that never finds an id
hasBeenSeenNever(seen, videoId) == FALSE

hasBeenSeen(seen, videoId) == videoId \in seen

\* markAsSeen that forgets to add
markAsSeenDropped(seen, videoId) == seen

markAsSeen(seen, videoId) == seen \cup {videoId}

\* filterNewVideos that lets everything through
filterNewVideosAll(seen, videos) == videos

filterNewVideos(seen, videos) == SelectSeq(videos, LAMBDA video : ~hasBeenSeen(seen, video.id))

\* a cache that always reports an initial run
isInitialRunAlways(seen) == TRUE

isInitialRun(seen) == Cardinality(seen) = 0

\* an update that does not look at the stored timestamp
updateLatestTimestampAlways(latest, sourceId, timestamp) ==
    [k \in DOMAIN latest \cup {sourceId} |->
        IF k = sourceId THEN toISOString(DateOf(timestamp)) ELSE latest[k]]

updateLatestTimestamp(latest, sourceId, timestamp) ==
    LET newTimestamp == DateOf(timestamp)
    IN  IF sourceId \notin DOMAIN latest \/ newTimestamp > DateParse(latest[sourceId])
        THEN [k \in DOMAIN latest \cup {sourceId} |->
                 IF k = sourceId THEN toISOString(newTimestamp) ELSE latest[k]]
        ELSE latest

\* processVideos, first loop: the newest published date per source key
RECURSIVE sourceTimestampsOf(_, _)
sourceTimestampsOf(videos, acc) ==
    IF videos = <<>> THEN acc
    ELSE LET video == Head(videos)
             sourceKey == SourceKey(video)
             videoDate == DateOf(video.published)
         IN  sourceTimestampsOf(Tail(videos),
                 IF sourceKey \notin DOMAIN acc \/ videoDate > acc[sourceKey]
                 THEN [k \in DOMAIN acc \cup {sourceKey} |->
                          IF k = sourceKey THEN videoDate ELSE acc[k]]
                 ELSE acc)

\* processVideos, second loop: sourceTimestamps.forEach(updateLatestTimestamp)
latestAfter(latest, videos) ==
    LET sourceTimestamps == sourceTimestampsOf(videos, <<>>)
        RECURSIVE apply(_, _)
        apply(l, keys) ==
            IF keys = {} THEN l
            ELSE LET k == CHOOSE x \in keys : TRUE
                 IN  apply(updateLatestTimestamp(l, k, sourceTimestamps[k]), keys \ {k})
    IN  apply(latest, DOMAIN sourceTimestamps)

\* a sampling that lets every new video through
devVideosOfAll(newVideos, seenSources) == newVideos

\* development mode: the first new video of every source key
RECURSIVE devVideosOf(_, _)
devVideosOf(newVideos, seenSources) ==
    IF newVideos = <<>> THEN <<>>
    ELSE LET video == Head(newVideos)
             sourceKey == SourceKey(video)
         IN  IF sourceKey \notin seenSources
             THEN <<video>> \o devVideosOf(Tail(newVideos), seenSources \cup {sourceKey})
             ELSE devVideosOf(Tail(newVideos), seenSources)

\* forEach that stops after the first video
\* a processVideos that does not mark what it returns
markAllAsSeenNone(seen, videos) == seen

markAllAsSeenFirst(seen, videos) ==
    IF videos = <<>> THEN seen ELSE markAsSeen(seen, Head(videos).id)

\* markMultipleAsSeen / videos.forEach(video => this.markAsSeen(video.id))
RECURSIVE markAllAsSeen(_, _)
markAllAsSeen(seen, videos) ==
    IF videos = <<>> THEN seen
    ELSE markAllAsSeen(markAsSeen(seen, Head(videos).id), Tail(videos))

\* processVideos(videos, isInitialRun, mode) on a cache with the given seen set and timestamp map:
\* the cache it leaves and the list it returns
processVideos(seen, latest, videos, initialRun, mode) ==
    LET updated == latestAfter(latest, videos)
        newVideos == filterNewVideos(seen, videos)
    IN  IF initialRun /\ mode = "production"
        THEN [seenVideoIds |-> markAllAsSeen(seen, videos),
              latestVideoTimestamps |-> updated,
              result |-> <<>>]
        ELSE IF mode = "development"
        THEN [seenVideoIds |-> markAllAsSeen(seen, newVideos),
              latestVideoTimestamps |-> updated,
              result |-> devVideosOf(newVideos, {})]
        ELSE [seenVideoIds |-> markAllAsSeen(seen, newVideos),
              latestVideoTimestamps |-> updated,
              result |-> newVideos]

NoCall ==
    [mode |-> "none", videos |-> <<>>, isInitialRun |-> FALSE, seenBefore |-> {},
     result |-> <<>>, returnedBefore |-> {}]

\* the ids that the processVideos calls on the cache have returned so far, c being the latest
\* call on it (returnedBefore: those returned by the calls before c)
returnedSoFar(c) ==
    IF c.mode \in Modes THEN c.returnedBefore \cup Ids(c.result) ELSE c.returnedBefore

\* the cycle processor's call: videoCache.processVideos(videos, videoCache.isInitialRun(), mode)
ProcessVideos(videos) ==
    LET initialRun == isInitialRun(seenVideoIds)
        after == processVideos(seenVideoIds, latestVideoTimestamps, videos, initialRun, runMode)
    IN  /\ seenVideoIds' = after.seenVideoIds
        /\ latestVideoTimestamps' = after.latestVideoTimestamps
        /\ call' = [mode |-> runMode, videos |-> videos, isInitialRun |-> initialRun,
                    seenBefore |-> seenVideoIds, result |-> after.result,
                    returnedBefore |-> returnedSoFar(call)]
        /\ UNCHANGED <<runMode, dispatchVars, storeVars, processVars>>

CacheProcess == \E videos \in VideoLists : ProcessVideos(videos)

----------------------------------------------------------------------------
(* VideoCache: cleanup and the state file *)

\* constructor(cacheFile = null)
NoFile == ""

StateFile == "cache.json"

\* save writes at most once per this many ms unless forced
saveIntervalMs == 30000

\* a < b for strings, by code units: the order of Array.prototype.sort()
RECURSIVE StringLess(_, _)
StringLess(a, b) ==
    IF Len(a) = 0 THEN Len(b) > 0
    ELSE IF Len(b) = 0 THEN FALSE
    ELSE IF a[1] # b[1] THEN a[1] < b[1]
    ELSE StringLess(Tail(a), Tail(b))

\* Array.from(this.seenVideoIds).sort()
RECURSIVE sort(_)
sort(set) ==
    IF set = {} THEN <<>>
    ELSE LET least == CHOOSE x \in set : \A y \in set \ {x} : StringLess(x, y)
         IN  <<least>> \o sort(set \ {least})

\* a slice that keeps the front of the array
sliceFirst(array, n) == IF Len(array) <= n THEN array ELSE SubSeq(array, 1, n)

\* Array.prototype.slice(-n)
sliceLast(array, n) ==
    IF n = 0 \/ Len(array) <= n THEN array ELSE SubSeq(array, Len(array) - n + 1, Len(array))

\* new Set(array)
SetOf(array) == {array[i] : i \in 1..Len(array)}

cleanup(seen, maxEntries) ==
    IF Cardinality(seen) <= maxEntries THEN seen
    ELSE LET videoIds == sort(seen)
             toKeep == sliceLast(videoIds, maxEntries)
         IN  SetOf(toKeep)

\* Array.from(set): the elements one after the other (the model does not keep the order of
\* insertion)
RECURSIVE ArrayFrom(_)
ArrayFrom(set) ==
    IF set = {} THEN <<>>
    ELSE LET x == CHOOSE y \in set : TRUE IN <<x>> \o ArrayFrom(set \ {x})

\* Object.fromEntries(map): an object is the set of its own [key, value] entries
ObjectFromEntries(map) == {<<k, map[k]>> : k \in DOMAIN map}

\* a load that skips the entries
MapOfNothing(object) == <<>>

\* new Map(Object.entries(object))
MapOfEntries(object) ==
    [k \in {entry[1] : entry \in object} |-> (CHOOSE entry \in object : entry[1] = k)[2]]

\* the record save serializes
cacheDataOf(seen, latest, t) ==
    [seenVideoIds |-> ArrayFrom(seen),
     latestVideoTimestamps |-> ObjectFromEntries(latest),
     lastUpdated |-> toISOString(t),
     version |-> "1.0.0"]

\* What the path can hold: nothing, a file that cannot be read, text that is not JSON, the
\* JSON text null, or the JSON text of a value.
Absent == [kind |-> "absent", value |-> <<>>]

Unreadable == [kind |-> "unreadable", value |-> <<>>]

Garbage == [kind |-> "garbage", value |-> <<>>]

JsonNull == [kind |-> "null", value |-> <<>>]

JSONstringify(value) == [kind |-> "json", value |-> value]

BadFiles == {Absent, Unreadable, Garbage, JsonNull}

\* the try block of initialize: what it throws, "none" when it runs to its end
loadError(file) ==
    IF file.kind = "absent" THEN "ENOENT"
    ELSE IF file.kind = "unreadable" THEN "EACCES"
    ELSE IF file.kind = "garbage" THEN "SyntaxError"
    ELSE IF file.kind = "null" THEN "TypeError"
    ELSE "none"

\* a catch that handles the missing file only
initializeCatchesMissing(error) == error = "ENOENT"

\* the catch of initialize logs whatever was thrown
initializeCatches(error) == TRUE

\* initialize() on a cache fresh from its constructor: the sets it is left with, and whether
\* it threw
initialize(path, file) ==
    LET error == IF path = NoFile THEN "none" ELSE loadError(file)
        loaded == path # NoFile /\ error = "none"
    IN  [seenVideoIds |-> IF loaded THEN SetOf(file.value.seenVideoIds) ELSE {},
         latestVideoTimestamps |->
             IF loaded THEN MapOfEntries(file.value.latestVideoTimestamps) ELSE <<>>,
         thrown |-> error # "none" /\ ~initializeCatches(error)]

RemoveAt(seq, i) == SubSeq(seq, 1, i - 1) \o SubSeq(seq, i + 1, Len(seq))

NoTime == 0 - 1

NoCaller == 0

Shutdown == 0 - 1

\* No save has written yet.
\*   saved      : the file holds what a save wrote, of the cache as it was at that save's call
\*                (seenVideoIds, latestVideoTimestamps; force: the save was forced)
\*   unforcedAt : when a non-forced save last started a write
\*   closest    : the least time between two such starts, saveIntervalMs if there is no less
\*   failedAt   : when the save was called whose write was rejected last
\*   thrown     : a save has thrown to its caller
NothingWritten ==
    [saved |-> FALSE, force |-> FALSE, seenVideoIds |-> {}, latestVideoTimestamps |-> <<>>,
     unforcedAt |-> NoTime, closest |-> saveIntervalMs, failedAt |-> NoTime, thrown |-> FALSE]

Min(a, b) == IF a <= b THEN a ELSE b

\* save(force) returns without writing
saveSkips(path, last, t, force) ==
    LET timeSinceLastSave == t - last
    IN  path = NoFile \/ (~force /\ timeSinceLastSave < saveIntervalMs)

\* save(force) up to its await of fs.writeFile at time t: the writes in progress afterwards
\* (caller: the cycle that awaits the save, Shutdown for gracefulShutdown, NoCaller for none)
saveWrites(ws, path, seen, latest, last, t, force, caller) ==
    IF saveSkips(path, last, t, force) THEN ws
    ELSE Append([i \in DOMAIN ws |-> [ws[i] EXCEPT !.raced = TRUE]],
                [data |-> JSONstringify(cacheDataOf(seen, latest, t)), now |-> t,
                 force |-> force, seenVideoIds |-> seen, latestVideoTimestamps |-> latest,
                 raced |-> Len(ws) > 0, caller |-> caller])

\* ... and the record of the non-forced writes
saveWritten(wr, path, last, t, force) ==
    IF force \/ saveSkips(path, last, t, force) THEN wr
    ELSE [wr EXCEPT !.unforcedAt = t,
                    !.closest = IF wr.unforcedAt = NoTime THEN @ ELSE Min(@, t - wr.unforcedAt)]

\* VideoCache.save(force), called on the cache as it is
Save(force) ==
    /\ Len(writes) < MaxWrites
    /\ ~saveSkips(cacheFile, lastSaveTime, now, force)
    /\ writes' = saveWrites(writes, cacheFile, seenVideoIds, latestVideoTimestamps,
                            lastSaveTime, now, force, NoCaller)
    /\ written' = saveWritten(written, cacheFile, lastSaveTime, now, force)
    /\ UNCHANGED <<cacheVars, dispatchVars, cacheFile, disk, lastSaveTime, processVars>>

\* a save without the try
saveCatchesNothing(error) == FALSE

\* the catch of save logs whatever the try block threw
saveCatches(error) == TRUE

\* fs.writeFile of a save settles. Fulfilled, the file holds the data (of two writes that were
\* in progress together it may hold a mix), and lastSaveTime is the time of the call; rejected,
\* the file is as it was or cut short, and the error is logged.
writeSettles(i, fulfilled) ==
    /\ i \in DOMAIN writes
    /\ disk' \in (IF fulfilled
                  THEN (IF writes[i].raced THEN {writes[i].data, Garbage} ELSE {writes[i].data})
                  ELSE {disk, Garbage})
    /\ lastSaveTime' = IF fulfilled THEN writes[i].now ELSE lastSaveTime
    /\ written' =
           LET content == IF disk' = disk /\ ~fulfilled THEN written
                          ELSE [written EXCEPT
                                    !.saved = fulfilled /\ disk' = writes[i].data,
                                    !.force = writes[i].force,
                                    !.seenVideoIds = writes[i].seenVideoIds,
                                    !.latestVideoTimestamps = writes[i].latestVideoTimestamps]
           IN  IF fulfilled THEN content
               ELSE [content EXCEPT !.failedAt = writes[i].now,
                                    !.thrown = @ \/ ~saveCatches("writeFile")]
    /\ writes' = RemoveAt(writes, i)

WriteFileDone(i, fulfilled) ==
    /\ writeSettles(i, fulfilled)
    /\ UNCHANGED <<cacheVars, dispatchVars, cacheFile>>

\* VideoCache.cleanup(maxEntries)
Cleanup(maxEntries) ==
    /\ seenVideoIds' = cleanup(seenVideoIds, maxEntries)
    /\ call' = [mode |-> "cleanup", maxEntries |-> maxEntries, seenBefore |-> seenVideoIds,
                returnedBefore |-> returnedSoFar(call)]
    /\ UNCHANGED <<runMode, latestVideoTimestamps, dispatchVars, storeVars, processVars>>

\* createVideoCache(config.cacheFile) and await videoCache.initialize(), when no save is at work
Initialize ==
    /\ writes = <<>>
    /\ LET loaded == initialize(cacheFile, disk)
       IN  /\ seenVideoIds' = loaded.seenVideoIds
           /\ latestVideoTimestamps' = loaded.latestVideoTimestamps
           /\ call' = [mode |-> "initialize", file |-> disk.kind, thrown |-> loaded.thrown,
                       returnedBefore |-> {}]
    /\ lastSaveTime' = now
    /\ UNCHANGED <<runMode, dispatchVars, cacheFile, disk, writes, written, processVars>>

\* time passes between the calls on the cache; a write settles before it does
Elapse ==
    /\ writes = <<>>
    /\ now + StoreTickMs <= MaxStoreTime
    /\ now' = now + StoreTickMs
    /\ UNCHANGED <<cacheVars, webhooks, batches, server, storeVars, processVars>>

----------------------------------------------------------------------------
(* DiscordWebhook *)

RATE_LIMIT_REQUESTS == 5
RATE_LIMIT_WINDOW_MS == 2000
maxRetries == 3
baseDelay == 1000

\* a schedule that grows by one base delay per retry
pow2Linear(n) == n + 1

\* Math.pow(2, n)
RECURSIVE pow2(_)
pow2(n) == IF n = 0 THEN 1 ELSE 2 * pow2(n - 1)

\* parseInt of a string of decimal digits
RECURSIVE parseInt(_)
parseInt(digits) ==
    IF Len(digits) = 1 THEN digits[1]
    ELSE 10 * parseInt(SubSeq(digits, 1, Len(digits) - 1)) + digits[Len(digits)]

\* What one HTTP POST can come back with: a 2xx, a 429 with or without a Retry-After header
\* (a string of digits, empty when the header is absent), another status, a transport error,
\* an AbortError.
Responses ==
    {[kind |-> "ok", retryAfter |-> <<>>],
     [kind |-> "429", retryAfter |-> <<>>],
     [kind |-> "429", retryAfter |-> <<0>>],
     [kind |-> "500", retryAfter |-> <<>>],
     [kind |-> "TypeError", retryAfter |-> <<>>],
     [kind |-> "AbortError", retryAfter |-> <<>>]}

\* error.name / error.message of what _sendWebhook throws for a response
ErrorOf(response) ==
    IF response.kind \in {"429", "500"} THEN "HTTP " \o response.kind ELSE response.kind

\* An entry of requestQueue: the payload (the embed of one video) and the promise it settles
\* (that of item number `item` of postVideoNotifications call number `batch`).
Request(video, b, k) == [payload |-> video.id, batch |-> b, item |-> k]

NoRequest == [payload |-> <<>>, batch |-> 0, item |-> 0]

NoResponse == [kind |-> "none", retryAfter |-> <<>>]

\* A DiscordWebhook right after its constructor, with no worker loop and nothing sent.
\*   loops     : the _processQueue invocations that passed the guard and have not returned,
\*               each with its position, the request it holds and the POSTs made for it
\*   posts     : times of the latest HTTP POSTs (those of one window, at most one more than
\*               the quota)
\*   enq, sent : the requests in the order of their enqueue / of their first POST
\*   done      : the requests whose promise has settled;  delivered : those that got a 2xx
\*   last      : the latest settlement: request, resolve/reject argument, final response
\*   reposted  : a POST was made for a request that had settled
\*   behind    : the requests that were enqueued while a loop was at work
NewWebhook ==
    [requestQueue |-> <<>>, requestTimestamps |-> <<>>, isProcessing |-> FALSE,
     loops |-> <<>>, posts |-> <<>>, enq |-> <<>>, sent |-> <<>>, done |-> {}, delivered |-> {},
     last |-> [req |-> NoRequest, outcome |-> "none", response |-> NoResponse, posted |-> 0],
     reposted |-> FALSE, behind |-> {}]

Latest(seq, n) == IF Len(seq) > n THEN SubSeq(seq, Len(seq) - n + 1, Len(seq)) ELSE seq

InWindow(times, t) == SelectSeq(times, LAMBDA timestamp : t - timestamp < RATE_LIMIT_WINDOW_MS)

\* _canMakeRequest: drops the timestamps that left the window ...
pruneTimestamps(h, t) == [h EXCEPT !.requestTimestamps = InWindow(@, t)]

\* a limiter that lets one more through
_canMakeRequestOneMore(h, t) ==
    Len(pruneTimestamps(h, t).requestTimestamps) <= RATE_LIMIT_REQUESTS

\* ... and answers whether fewer than RATE_LIMIT_REQUESTS remain
_canMakeRequest(h, t) == Len(pruneTimestamps(h, t).requestTimestamps) < RATE_LIMIT_REQUESTS

_calculateDelay(h, t) ==
    IF Len(h.requestTimestamps) = 0 THEN 0
    ELSE LET oldestRequest == h.requestTimestamps[1]
             timeSinceOldest == t - oldestRequest
         IN  IF timeSinceOldest >= RATE_LIMIT_WINDOW_MS THEN 0
             ELSE RATE_LIMIT_WINDOW_MS - timeSinceOldest

\* fetch(this.webhookUrl, {method: 'POST', ...}) inside _sendWebhook(payload, retryCount):
\* the request goes out and the loop waits for the response
fetchPost(h, t, req, retryCount, posted) ==
    [h EXCEPT !.loops = Append(@, [pc |-> "fetch", wakeAt |-> t, req |-> req,
                                   retryCount |-> retryCount, posted |-> posted + 1]),
              !.posts = Latest(Append(InWindow(@, t), t), RATE_LIMIT_REQUESTS + 1),
              !.sent = IF posted = 0 THEN Append(@, req) ELSE @,
              !.reposted = @ \/ req \in h.done]

\* const {payload, resolve, reject} = this.requestQueue.shift(); await this._sendWebhook(payload)
\* (on an empty queue the destructuring throws and the loop ends with isProcessing still set)
shiftAndSend(h, t) ==
    IF Len(h.requestQueue) = 0 THEN h
    ELSE fetchPost([h EXCEPT !.requestQueue = Tail(@)], t, Head(h.requestQueue), 0, 0)

\* a loop that returns without resetting isProcessing
whileQueueKeepsFlag(h, t) ==
    IF Len(h.requestQueue) > 0
    THEN IF ~_canMakeRequest(h, t)
         THEN LET pruned == pruneTimestamps(h, t)
                  delay == _calculateDelay(pruned, t)
              IN  [pruned EXCEPT !.loops = Append(@, [pc |-> "sleep", wakeAt |-> t + delay,
                                                       req |-> NoRequest, retryCount |-> 0,
                                                       posted |-> 0])]
         ELSE shiftAndSend(pruneTimestamps(h, t), t)
    ELSE h

\* the while loop of _processQueue from its condition to its next await or its end
whileQueue(h, t) ==
    IF Len(h.requestQueue) > 0
    THEN IF ~_canMakeRequest(h, t)
         THEN LET pruned == pruneTimestamps(h, t)
                  delay == _calculateDelay(pruned, t)
              IN  [pruned EXCEPT !.loops = Append(@, [pc |-> "sleep", wakeAt |-> t + delay,
                                                       req |-> NoRequest, retryCount |-> 0,
                                                       posted |-> 0])]
         ELSE shiftAndSend(pruneTimestamps(h, t), t)
    ELSE [h EXCEPT !.isProcessing = FALSE]

\* a guard that does not look at isProcessing
processQueueGuardNoFlag(h) == Len(h.requestQueue) # 0

\* the guard of _processQueue
processQueueGuard(h) == ~(h.isProcessing \/ Len(h.requestQueue) = 0)

_processQueue(h, t) ==
    IF processQueueGuard(h) THEN whileQueue([h EXCEPT !.isProcessing = TRUE], t) ELSE h

\* a postVideoNotification that posts at once instead of queueing
postVideoNotificationDirect(h, t, req) ==
    fetchPost([h EXCEPT !.enq = Append(@, req),
                        !.behind = IF Len(h.loops) > 0 THEN @ \cup {req} ELSE @], t, req, 0, 0)

\* DiscordWebhook.postVideoNotification: push the request, start the queue
postVideoNotification(h, t, req) ==
    _processQueue([h EXCEPT !.requestQueue = Append(@, req), !.enq = Append(@, req),
                            !.behind = IF Len(h.loops) > 0 THEN @ \cup {req} ELSE @], t)

\* a loop that ends when a send has failed for good
settleStopsOnError(h, t, loop, outcome, response) ==
    LET settled == [h EXCEPT !.done = @ \cup {loop.req},
                             !.delivered = IF response.kind = "ok" THEN @ \cup {loop.req} ELSE @,
                             !.last = [req |-> loop.req, outcome |-> outcome,
                                       response |-> response, posted |-> loop.posted],
                             !.requestTimestamps = IF outcome = "ok" THEN Append(@, t) ELSE @]
    IN  IF outcome = "ok" THEN whileQueue(settled, t) ELSE settled

\* resolve(result) after the timestamp push, or reject(error); then the loop goes on
settle(h, t, loop, outcome, response) ==
    whileQueue([h EXCEPT !.done = @ \cup {loop.req},
                         !.delivered = IF response.kind = "ok" THEN @ \cup {loop.req} ELSE @,
                         !.last = [req |-> loop.req, outcome |-> outcome, response |-> response,
                                   posted |-> loop.posted],
                         !.requestTimestamps = IF outcome = "ok" THEN Append(@, t) ELSE @], t)

NoRetry == 0 - 1

\* a catch that retries whatever was thrown
retryDelayAbortToo(response, retryCount) ==
    IF retryCount < maxRetries
    THEN IF response.kind = "429" /\ Len(response.retryAfter) > 0
         THEN parseInt(response.retryAfter) * 1000
         ELSE baseDelay * pow2(retryCount)
    ELSE NoRetry

\* a retry test that is off by one: retryCount <= maxRetries
retryDelayOneMore(response, retryCount) ==
    IF response.kind = "AbortError" \/ retryCount > maxRetries THEN NoRetry
    ELSE IF response.kind = "429" /\ Len(response.retryAfter) > 0
    THEN parseInt(response.retryAfter) * 1000
    ELSE baseDelay * pow2(retryCount)

\* the delay _sendWebhook sleeps before it retries, NoRetry when it throws instead
retryDelay(response, retryCount) ==
    IF response.kind = "429"
    THEN IF retryCount < maxRetries
         THEN IF Len(response.retryAfter) > 0
              THEN parseInt(response.retryAfter) * 1000
              ELSE baseDelay * pow2(retryCount)
         ELSE NoRetry
    ELSE IF retryCount < maxRetries /\ response.kind # "AbortError"
         THEN baseDelay * pow2(retryCount)
         ELSE NoRetry

\* _sendWebhook from the point where fetch settles
afterFetch(h, t, loop, response) ==
    IF response.kind = "ok" THEN settle(h, t, loop, "ok", response)
    ELSE LET delay == retryDelay(response, loop.retryCount)
         IN  IF delay = NoRetry THEN settle(h, t, loop, ErrorOf(response), response)
             ELSE [h EXCEPT !.loops = Append(@, [loop EXCEPT !.pc = "backoff",
                                                              !.wakeAt = t + delay])]

----------------------------------------------------------------------------
(* MultiDiscordWebhook *)

\* a fan-out that starts with the first webhook only
fanOutTargetsFirst(hs) == {1}

\* the webhooks one postVideoNotification call posts to: this.webhooks.map(...)
fanOutTargets(hs) == DOMAIN hs

\* MultiDiscordWebhook.postVideoNotification up to its await: one enqueue per webhook
fanOut(hs, t, req) ==
    [e \in DOMAIN hs |-> IF e \in fanOutTargets(hs) THEN postVideoNotification(hs[e], t, req) ELSE hs[e]]

\* a callback that reports success whatever happened
webhookResultOk(e, outcome) == [webhookIndex |-> e - 1, success |-> TRUE, error |-> ""]

\* what the map callback of webhook e returns when its promise has settled
webhookResult(e, outcome) ==
    IF outcome = "ok" THEN [webhookIndex |-> e - 1, success |-> TRUE, error |-> ""]
    ELSE [webhookIndex |-> e - 1, success |-> FALSE, error |-> outcome]

\* a wait that ends with the first callback that returns
anySettled(outcome) == \E e \in DOMAIN outcome : outcome[e] # "pending"

\* await Promise.allSettled(promises): every map callback has returned
allSettled(outcome) == \A e \in DOMAIN outcome : outcome[e] # "pending"

\* logger.logDiscordPost(video.id, success, error, index + 1) for item k of a call and webhook
\* e: the log of the call, with the entries of every item and webhook
logDiscordPost(logs, k, e, success) ==
    IF <<k, e>> \in DOMAIN logs THEN [logs EXCEPT ![<<k, e>>] = Append(@, success)]
    ELSE logs @@ (<<k, e>> :> <<success>>)

\* postVideoNotifications from the moment the promise of req settles on webhook e:
\* the callback logs the outcome and returns its result; once all have, the item's results are
\* pushed and the loop goes on to the next video or returns
onSettled(bs, hs, t, e, req, result) ==
    LET b == [bs[req.batch] EXCEPT !.logs = logDiscordPost(@, req.item, e, result = "ok")]
        outcome == [b.outcome EXCEPT ![e] = result]
    IN  IF ~allSettled(outcome)
        THEN [batches |-> [bs EXCEPT ![req.batch] = [b EXCEPT !.outcome = outcome]],
              webhooks |-> hs]
        ELSE LET allResults == Append(b.allResults,
                     [videoId |-> b.videos[b.idx].id,
                      webhookResults |-> [i \in DOMAIN outcome |-> webhookResult(i, outcome[i])]])
             IN  IF b.idx < Len(b.videos)
                 THEN [batches |-> [bs EXCEPT ![req.batch] =
                                       [b EXCEPT !.idx = b.idx + 1,
                                                 !.outcome = [i \in DOMAIN hs |-> "pending"],
                                                 !.allResults = allResults]],
                       webhooks |-> fanOut(hs, t, Request(b.videos[b.idx + 1], req.batch, b.idx + 1))]
                 ELSE [batches |-> [bs EXCEPT ![req.batch] =
                                       [b EXCEPT !.status = "done", !.outcome = outcome,
                                                 !.allResults = allResults]],
                       webhooks |-> hs]

\* the requests whose promise an event on a webhook has settled
newlySettled(h, h2) == h2.done \ h.done

\* webhooks that keep one rate window between them
TurnSharedWindow(e, h2) ==
    LET hs == [i \in DOMAIN webhooks |->
                  IF i = e THEN h2
                  ELSE [webhooks[i] EXCEPT !.requestTimestamps = h2.requestTimestamps]]
        settled == newlySettled(webhooks[e], h2)
    IN  IF settled = {}
        THEN webhooks' = hs /\ UNCHANGED batches
        ELSE LET req == CHOOSE r \in settled : TRUE
                 after == onSettled(batches, hs, now, e, req, h2.last.outcome)
             IN  webhooks' = after.webhooks /\ batches' = after.batches

\* One event-loop turn that takes webhook e from its state to h2, with the microtasks it queues.
Turn(e, h2) ==
    LET hs == [webhooks EXCEPT ![e] = h2]
        settled == newlySettled(webhooks[e], h2)
    IN  IF settled = {}
        THEN webhooks' = hs /\ UNCHANGED batches
        ELSE LET req == CHOOSE r \in settled : TRUE
                 after == onSettled(batches, hs, now, e, req, h2.last.outcome)
             IN  webhooks' = after.webhooks /\ batches' = after.batches

----------------------------------------------------------------------------
(* Dispatch actions *)

\* index.js processVideos: await discordWebhook.postVideoNotifications(newVideos)
PostVideoNotifications(b) ==
    /\ batches[b].status = "idle"
    /\ \A a \in 1..(b - 1) : batches[a].status # "idle"
    /\ batches' = [batches EXCEPT ![b].status = "running", ![b].idx = 1,
                                  ![b].outcome = [e \in DOMAIN webhooks |-> "pending"]]
    /\ webhooks' = fanOut(webhooks, now, Request(batches[b].videos[1], b, 1))
    /\ UNCHANGED <<now, server, cacheVars, storeVars, processVars>>

\* the timer of the rate-limit sleep in _processQueue fires
SleepDone(e, i) ==
    /\ webhooks[e].loops[i].pc = "sleep"
    /\ now >= webhooks[e].loops[i].wakeAt
    /\ Turn(e, shiftAndSend([webhooks[e] EXCEPT !.loops = RemoveAt(@, i)], now))
    /\ UNCHANGED <<now, server, cacheVars, storeVars, processVars>>

\* the fetch of _sendWebhook settles
FetchDone(e, i, response) ==
    /\ webhooks[e].loops[i].pc = "fetch"
    /\ response \in server[e]
    /\ Turn(e, afterFetch([webhooks[e] EXCEPT !.loops = RemoveAt(@, i)], now,
                          webhooks[e].loops[i], response))
    /\ UNCHANGED <<now, server, cacheVars, storeVars, processVars>>

\* the timer of the retry sleep in _sendWebhook fires: _sendWebhook(payload, retryCount + 1)
BackoffDone(e, i) ==
    /\ webhooks[e].loops[i].pc = "backoff"
    /\ now >= webhooks[e].loops[i].wakeAt
    /\ Turn(e, fetchPost([webhooks[e] EXCEPT !.loops = RemoveAt(@, i)], now,
                         webhooks[e].loops[i].req, webhooks[e].loops[i].retryCount + 1,
                         webhooks[e].loops[i].posted))
    /\ UNCHANGED <<now, server, cacheVars, storeVars, processVars>>

\* a timer whose delay has run out and whose callback has not run yet
TimerDue ==
    \E e \in DOMAIN webhooks : \E i \in DOMAIN webhooks[e].loops :
        webhooks[e].loops[i].pc \in {"sleep", "backoff"} /\ webhooks[e].loops[i].wakeAt <= now

\* an HTTP POST that would be out for longer than MaxLatency at the next tick
FetchDue ==
    \E e \in DOMAIN webhooks : \E i \in DOMAIN webhooks[e].loops :
        webhooks[e].loops[i].pc = "fetch" /\ now + TickMs > webhooks[e].loops[i].wakeAt + MaxLatency

\* time passes: the clock starts with the first call and stops after the last one has
\* returned; timers fire when they are due, responses come within MaxLatency
Tick ==
    /\ ~TimerDue
    /\ ~FetchDue
    /\ batches[1].status # "idle"
    /\ \E b \in DOMAIN batches : batches[b].status # "done"
    /\ now + TickMs <= MaxTime
    /\ now' = now + TickMs
    /\ UNCHANGED <<webhooks, batches, server, cacheVars, storeVars, processVars>>

Post == \E b \in DOMAIN batches : PostVideoNotifications(b)

Wake == \E e \in DOMAIN webhooks : \E i \in DOMAIN webhooks[e].loops : SleepDone(e, i)

Respond ==
    \E e \in DOMAIN webhooks : \E i \in DOMAIN webhooks[e].loops :
        \E response \in Responses : FetchDone(e, i, response)

Retry == \E e \in DOMAIN webhooks : \E i \in DOMAIN webhooks[e].loops : BackoffDone(e, i)

----------------------------------------------------------------------------
(* The process: main, startPolling, performPollingCycle, processVideos, gracefulShutdown *)

\* config.pollIntervalSeconds * 1000, at the least value the configuration accepts
pollIntervalMs == 60000

\* the wait of gracefulShutdown for pending notifications
graceMs == 5000

\* performPollingCycle cleans the cache every so many cycles
cleanupEvery == 50

\* cleanup(maxEntries = 10000)
maxEntriesDefault == 10000

\* The module variables of index.js after a start, and the position of the process.
\*   status     : "starting" (main awaits initialize), "running", "exited"; "none" before the
\*                first start
\*   shutdown   : where gracefulShutdown waits: "none", "save" (videoCache.shutdown()), "grace"
\*   starts     : how often the process has been started
\*   atSignal   : the requests that were in flight or in backoff when the signal came, with the
\*                POSTs made for them until then
\*   failed     : the number of the last cycle that threw, 0 if none did
\*   returned   : the number of the last cycle that returned after its deliveries
\*   unsaved    : a cycle returned after its deliveries without a write of the state file
\*   saved      : the write of videoCache.shutdown() was fulfilled
\*   exitCode   : the argument of process.exit
\*   lost       : of an exited process, the ids its cache held that the state file it left
\*                does not give back to initialize
\*   unlogged   : of an exited process, the (video, webhook) pairs that were handed to a
\*                webhook and whose outcome was not logged once
\*   backlog    : how many videos the feeds held when the fetch of the first cycle settled,
\*                NoTime before
\*   empty      : the number of the last cycle whose fetch gave no videos, 0 if none did
\*   quiet      : the last cycle that had videos and none to deliver: its number, the time since
\*                lastSaveTime when it returned, and whether it called save()
NewProcess(starts) ==
    [status |-> "starting", isShuttingDown |-> FALSE, pollingInterval |-> FALSE,
     nextPollAt |-> 0, pollingCycleCount |-> 0, shutdown |-> "none", exitAt |-> 0,
     starts |-> starts, atSignal |-> {}, failed |-> 0, returned |-> 0, unsaved |-> FALSE,
     saved |-> FALSE, exitCode |-> 0, lost |-> {}, unlogged |-> {}, empty |-> 0,
     backlog |-> NoTime,
     quiet |-> [n |-> 0, timeSinceLastSave |-> 0, saved |-> FALSE]]

NotStarted == [NewProcess(0) EXCEPT !.status = "none"]

Alive == proc.status \in {"starting", "running"}

\* what fetchAllVideos resolves with: the videos of the feeds, newest first
feedVideos(n) == [k \in 1..n |-> Video(n - k + 1, "channel")]

\* a postVideoNotifications call has returned and its cycle has not gone on yet
ResumeDue ==
    \E c \in DOMAIN cycles :
        cycles[c].pc = "post" /\ batches[cycles[c].batch].status = "done"

\* a cycle end that trims the cache to one id every time
cycleCleanupEveryCycle(seen, pollingCycleCount) == cleanup(seen, 1)

\* the end of performPollingCycle after processVideos has returned: the cache it leaves
cycleCleanup(seen, pollingCycleCount) ==
    IF pollingCycleCount % cleanupEvery = 0 THEN cleanup(seen, maxEntriesDefault) ELSE seen

\* the (video, webhook) pairs that postVideoNotifications calls have handed to the webhooks
\* and for which logDiscordPost has not been called exactly once
notLoggedOnce(bs) ==
    UNION {UNION {{<<bs[b].videos[k].id, e>> :
                       e \in {i \in DOMAIN bs[b].outcome :
                                  \/ <<k, i>> \notin DOMAIN bs[b].logs
                                  \/ Len(bs[b].logs[<<k, i>>]) # 1}} :
                  k \in 1..bs[b].idx} :
           b \in DOMAIN bs}

\* process.exit(code): the process takes its memory, its cycles and its writes with it; a
\* write it cuts off leaves the file as it was, cut short, or complete. What the webhooks of
\* a process delivered before it shut down gracefully (exit code 0, state file saved) is kept
\* in `past`, and the clock counts from the start of the next process.
exit(code) ==
    /\ past' = IF code = 0 /\ proc.saved
               THEN past \cup UNION {{<<req.payload, e>> : req \in webhooks[e].delivered} :
                                         e \in DOMAIN webhooks}
               ELSE past
    /\ cycles' = <<>>
    /\ writes' = <<>>
    /\ disk' \in {disk} \cup (IF writes = <<>> THEN {}
                              ELSE {Garbage} \cup {writes[i].data : i \in DOMAIN writes})
    /\ proc' = [NewProcess(proc.starts) EXCEPT !.status = "exited", !.exitCode = code,
                                               !.isShuttingDown = proc.isShuttingDown,
                                               !.shutdown = proc.shutdown,
                                               !.saved = proc.saved,
                                               !.lost = seenVideoIds \
                                                   initialize(cacheFile, disk').seenVideoIds,
                                               !.unlogged = notLoggedOnce(batches)]
    /\ written' = [written EXCEPT !.saved = @ /\ disk' = disk, !.unforcedAt = NoTime,
                                  !.failedAt = NoTime]
    /\ webhooks' = [e \in DOMAIN webhooks |-> NewWebhook]
    /\ batches' = <<>>
    /\ seenVideoIds' = {}
    /\ latestVideoTimestamps' = <<>>
    /\ call' = NoCall
    /\ lastSaveTime' = 0
    /\ now' = 0

\* main() of a new process up to its await of videoCache.initialize(): the cache is
\* constructed, the webhooks are not yet
Start ==
    /\ proc.status \in {"none", "exited"}
    /\ proc.starts < MaxStarts
    /\ proc' = NewProcess(proc.starts + 1)
    /\ lastSaveTime' = now
    /\ UNCHANGED <<cacheVars, dispatchVars, cacheFile, disk, writes, written, cycles, feed, past>>

\* a performPollingCycle call that has passed its guard: its number, where it waits ("fetch":
\* fetchAllVideos, "post": postVideoNotifications, "save": videoCache.save()) and the
\* postVideoNotifications call it made
NewCycle(n) == [n |-> n, pc |-> "fetch", batch |-> 0]

\* a cycle that does not look at isShuttingDown
performPollingCycleUnguarded(p, cs) ==
    [proc |-> [p EXCEPT !.pollingCycleCount = @ + 1],
     cycles |-> Append(cs, NewCycle(p.pollingCycleCount + 1))]

\* performPollingCycle() up to its first await
performPollingCycle(p, cs) ==
    IF p.isShuttingDown THEN [proc |-> p, cycles |-> cs]
    ELSE [proc |-> [p EXCEPT !.pollingCycleCount = @ + 1],
          cycles |-> Append(cs, NewCycle(p.pollingCycleCount + 1))]

\* videoCache.initialize() settles; main creates the webhooks and calls startPolling: the first
\* cycle starts at once and the interval is set
Started ==
    /\ proc.status = "starting"
    /\ LET loaded == initialize(cacheFile, disk)
       IN  /\ seenVideoIds' = loaded.seenVideoIds
           /\ latestVideoTimestamps' = loaded.latestVideoTimestamps
           /\ call' = [mode |-> "initialize", file |-> disk.kind, thrown |-> loaded.thrown,
                       returnedBefore |-> {}]
    /\ LET first == performPollingCycle(proc, cycles)
       IN  /\ proc' = [first.proc EXCEPT !.status = "running", !.pollingInterval = TRUE,
                                         !.nextPollAt = now + pollIntervalMs]
           /\ cycles' = first.cycles
    /\ UNCHANGED <<runMode, dispatchVars, storeVars, feed, past>>

\* the callback of setInterval
IntervalFires ==
    /\ proc.status = "running"
    /\ proc.pollingInterval
    /\ now >= proc.nextPollAt
    /\ proc.pollingCycleCount < MaxCycles
    /\ LET next == performPollingCycle(proc, cycles)
       IN  /\ proc' = [next.proc EXCEPT !.nextPollAt = @ + pollIntervalMs]
           /\ cycles' = next.cycles
    /\ UNCHANGED <<cacheVars, dispatchVars, storeVars, feed, past>>

\* a cycle without the try
cycleCatchesNothing(error) == FALSE

\* the catch of performPollingCycle takes whatever the cycle throws
cycleCatches(error) == TRUE

\* the steps of a cycle that may throw before the cache is touched
Failures == {"fetchAllVideos", "processVideos"}

\* fetchAllVideos settles for cycle c, with the videos the sources have published by then
\* (feed), or with none when it skipped every source because its fetch failed ("sources").
\* Rejected (or with a result that makes processVideos throw at once), the catch of performPollingCycle logs the
\* error. Fulfilled, processVideos runs up to its first await: nothing to do for no videos and
\* for no new ones, else the cache has marked them and they go to the webhooks.
FetchAllDone(c, failure) ==
    /\ proc.status = "running"
    /\ c \in DOMAIN cycles
    /\ cycles[c].pc = "fetch"
    /\ feed' \in feed..MaxFeed
    /\ LET videos == IF failure = "sources" THEN <<>> ELSE feedVideos(feed')
           after == processVideos(seenVideoIds, latestVideoTimestamps, videos,
                                  isInitialRun(seenVideoIds), runMode)
           b == Len(batches) + 1
           p == IF cycles[c].n = 1 THEN [proc EXCEPT !.backlog = feed'] ELSE proc
       IN  IF failure \in Failures
           THEN IF cycleCatches(failure)
                THEN /\ proc' = [p EXCEPT !.failed = cycles[c].n]
                     /\ cycles' = RemoveAt(cycles, c)
                     /\ UNCHANGED <<cacheVars, now, webhooks, batches, disk, lastSaveTime,
                                    writes, written, past>>
                ELSE exit(1) /\ UNCHANGED runMode
           ELSE IF Len(videos) = 0
           THEN /\ seenVideoIds' = cycleCleanup(seenVideoIds, proc.pollingCycleCount)
                /\ cycles' = RemoveAt(cycles, c)
                /\ proc' = [p EXCEPT !.empty = cycles[c].n]
                /\ UNCHANGED <<runMode, latestVideoTimestamps, call, now, webhooks, batches,
                               disk, lastSaveTime, writes, written, past>>
           ELSE /\ latestVideoTimestamps' = after.latestVideoTimestamps
                /\ call' = [mode |-> runMode, videos |-> videos,
                            isInitialRun |-> isInitialRun(seenVideoIds),
                            seenBefore |-> seenVideoIds, result |-> after.result,
                            returnedBefore |-> returnedSoFar(call)]
                /\ IF Len(after.result) = 0
                   THEN /\ seenVideoIds' = cycleCleanup(after.seenVideoIds,
                                                        proc.pollingCycleCount)
                        /\ cycles' = RemoveAt(cycles, c)
                        /\ proc' = [p EXCEPT !.quiet = [n |-> cycles[c].n,
                                                        timeSinceLastSave |-> now - lastSaveTime,
                                                        saved |-> FALSE]]
                        /\ UNCHANGED <<webhooks, batches>>
                   ELSE /\ seenVideoIds' = after.seenVideoIds
                        /\ proc' = p
                        /\ batches' = Append(batches,
                               [status |-> "running", videos |-> after.result, idx |-> 1,
                                outcome |-> [e \in DOMAIN webhooks |-> "pending"],
                                allResults |-> <<>>, logs |-> <<>>])
                        /\ webhooks' = fanOut(webhooks, now, Request(after.result[1], b, 1))
                        /\ cycles' = [cycles EXCEPT ![c].pc = "post", ![c].batch = b]
                /\ UNCHANGED <<runMode, now, disk, lastSaveTime, writes, written, past>>
    /\ UNCHANGED <<server, cacheFile>>

\* postVideoNotifications has returned to cycle c: processVideos counts the results and awaits
\* videoCache.save(); a save that returns without writing ends the cycle
CycleSaves(c) ==
    /\ proc.status = "running"
    /\ c \in DOMAIN cycles
    /\ cycles[c].pc = "post"
    /\ batches[cycles[c].batch].status = "done"
    /\ writes' = saveWrites(writes, cacheFile, seenVideoIds, latestVideoTimestamps,
                            lastSaveTime, now, FALSE, cycles[c].n)
    /\ written' = saveWritten(written, cacheFile, lastSaveTime, now, FALSE)
    /\ IF saveSkips(cacheFile, lastSaveTime, now, FALSE)
       THEN /\ seenVideoIds' = cycleCleanup(seenVideoIds, proc.pollingCycleCount)
            /\ cycles' = RemoveAt(cycles, c)
            /\ proc' = [proc EXCEPT !.returned = cycles[c].n, !.unsaved = TRUE]
       ELSE /\ cycles' = [cycles EXCEPT ![c].pc = "save"]
            /\ UNCHANGED <<seenVideoIds, proc>>
    /\ UNCHANGED <<runMode, latestVideoTimestamps, call, dispatchVars, cacheFile, disk,
                   lastSaveTime, feed, past>>

\* fs.writeFile of a save settles and the save returns to its caller: the cycle ends, or
\* gracefulShutdown is ready to go on
WriteDone(i, fulfilled) ==
    /\ Alive
    /\ writeSettles(i, fulfilled)
    /\ LET caller == writes[i].caller
           c == CHOOSE k \in DOMAIN cycles : cycles[k].n = caller
       IN  IF caller = Shutdown
           THEN /\ proc' = [proc EXCEPT !.shutdown = "saved", !.saved = fulfilled]
                /\ UNCHANGED <<seenVideoIds, cycles>>
           ELSE /\ seenVideoIds' = cycleCleanup(seenVideoIds, proc.pollingCycleCount)
                /\ cycles' = RemoveAt(cycles, c)
                /\ proc' = [proc EXCEPT !.returned = caller]
    /\ UNCHANGED <<runMode, latestVideoTimestamps, call, dispatchVars, cacheFile, feed, past>>

\* the requests a webhook has in flight or in backoff, with the POSTs made for them
pendingPosts(hs) ==
    UNION {{<<e, hs[e].loops[i].req, hs[e].loops[i].posted>> :
                i \in {k \in DOMAIN hs[e].loops : hs[e].loops[k].pc # "sleep"}} :
           e \in DOMAIN hs}

\* SIGTERM or SIGINT: gracefulShutdown(signal) up to its await of videoCache.shutdown().
\* A second signal ends the process at once.
Signal ==
    /\ Alive
    /\ IF proc.isShuttingDown
       THEN exit(1)
       ELSE /\ proc' = [proc EXCEPT !.isShuttingDown = TRUE, !.pollingInterval = FALSE,
                                    !.atSignal = pendingPosts(webhooks),
                                    !.shutdown = IF saveSkips(cacheFile, lastSaveTime, now, TRUE)
                                                 THEN "saved" ELSE "save"]
            /\ writes' = saveWrites(writes, cacheFile, seenVideoIds, latestVideoTimestamps,
                                    lastSaveTime, now, TRUE, Shutdown)
            /\ written' = saveWritten(written, cacheFile, lastSaveTime, now, TRUE)
            /\ UNCHANGED <<seenVideoIds, latestVideoTimestamps, call, now, webhooks, batches,
                           cycles, disk, lastSaveTime, past>>
    /\ UNCHANGED <<runMode, server, cacheFile, feed>>

RECURSIVE sumQueueLength(_)
sumQueueLength(statuses) ==
    IF statuses = <<>> THEN 0 ELSE Head(statuses).queueLength + sumQueueLength(Tail(statuses))

\* discordWebhook.getQueueStatus(), reduced to the total; no webhooks before main made them
totalQueueLength(p, hs) ==
    IF p.status = "starting" THEN 0
    ELSE sumQueueLength([e \in DOMAIN hs |-> [queueLength |-> Len(hs[e].requestQueue)]])

\* gracefulShutdown after videoCache.shutdown() has returned: wait graceMs for pending
\* notifications, or process.exit(0)
ShutdownGoesOn ==
    /\ Alive
    /\ proc.shutdown = "saved"
    /\ IF totalQueueLength(proc, webhooks) > 0
       THEN /\ proc' = [proc EXCEPT !.shutdown = "grace", !.exitAt = now + graceMs]
            /\ UNCHANGED <<seenVideoIds, latestVideoTimestamps, call, now, webhooks, batches,
                           cycles, writes, disk, written, lastSaveTime, past>>
       ELSE exit(0)
    /\ UNCHANGED <<runMode, server, cacheFile, feed>>

\* the timer of the wait fires: process.exit(0)
GraceOver ==
    /\ Alive
    /\ proc.shutdown = "grace"
    /\ now >= proc.exitAt
    /\ exit(0)
    /\ UNCHANGED <<runMode, server, cacheFile, feed>>

\* a continuation that runs before the event loop takes its next event
MicrotaskDue == ResumeDue \/ proc.shutdown = "saved"

\* the times of the timers that are set: retry and rate-limit sleeps, the wait of the shutdown,
\* the polling interval
Timers ==
    UNION {{webhooks[e].loops[i].wakeAt :
                i \in {k \in DOMAIN webhooks[e].loops : webhooks[e].loops[k].pc # "fetch"}} :
           e \in DOMAIN webhooks}
    \cup (IF proc.shutdown = "grace" THEN {proc.exitAt} ELSE {})
    \cup (IF proc.pollingInterval /\ proc.pollingCycleCount < MaxCycles
          THEN {proc.nextPollAt} ELSE {})

\* time passes up to the next timer, while no response of Discord and no write is awaited
\* (the feeds may take as long)
Advance ==
    /\ proc.status = "running"
    /\ writes = <<>>
    /\ \A e \in DOMAIN webhooks : \A i \in DOMAIN webhooks[e].loops :
           webhooks[e].loops[i].pc # "fetch"
    /\ Timers # {}
    /\ \A t \in Timers : t > now
    /\ now' = CHOOSE t \in Timers : \A u \in Timers : t <= u
    /\ UNCHANGED <<cacheVars, webhooks, batches, server, storeVars, processVars>>

----------------------------------------------------------------------------
(* Specifications *)

\* the delivery lists of at most n videos, newest first
DeliveryLists(n) == {[k \in 1..m |-> Video(m - k + 1, "channel")] : m \in 1..n}

\* a postVideoNotifications call that has not started, with the list it will be given
IdleBatch(videos) ==
    [status |-> "idle", videos |-> videos, idx |-> 0, outcome |-> <<>>, allResults |-> <<>>,
     logs |-> <<>>]

\* the videos that the calls deliver in all
RECURSIVE Payloads(_)
Payloads(bs) == IF bs = <<>> THEN 0 ELSE Len(Head(bs).videos) + Payloads(Tail(bs))

\* remote ends: one that always accepts, one that always fails, one that accepts or cuts the
\* connection
Accepting == {r \in Responses : r.kind = "ok"}

Failing == {r \in Responses : r.kind = "500"}

Flaky == {r \in Responses : r.kind \in {"ok", "AbortError"}}

Servers == {Accepting, Failing, Flaky}

\* a cache without a state file
StoreIdle ==
    /\ cacheFile = NoFile
    /\ disk = Absent
    /\ lastSaveTime = 0
    /\ writes = <<>>
    /\ written = NothingWritten

\* no process around the cache and the webhooks
NoProcess ==
    /\ proc = NotStarted
    /\ cycles = <<>>
    /\ feed = 0
    /\ past = {}

CacheInit ==
    /\ runMode \in Modes
    /\ seenVideoIds = {}
    /\ latestVideoTimestamps = <<>>
    /\ call = NoCall
    /\ now = 0
    /\ webhooks = <<NewWebhook>>
    /\ batches = <<>>
    /\ server = <<Responses>>
    /\ StoreIdle
    /\ NoProcess

CacheNext == CacheProcess

CacheSpec == CacheInit /\ [][CacheNext]_vars

\* the cache as the dispatch specifications leave it
CacheIdle ==
    /\ runMode = "production"
    /\ seenVideoIds = {}
    /\ latestVideoTimestamps = <<>>
    /\ call = NoCall
    /\ StoreIdle
    /\ NoProcess

\* one webhook, overlapping calls, any response
Overlap ==
    /\ webhooks = <<NewWebhook>>
    /\ server = <<Responses>>
    /\ batches \in UNION {[1..n -> {IdleBatch(videos) : videos \in DeliveryLists(MaxPayloads)}] :
                              n \in 1..MaxPayloads}
    /\ Payloads(batches) <= MaxPayloads

\* one webhook that accepts everything, one call with a long list
Burst ==
    /\ webhooks = <<NewWebhook>>
    /\ server = <<Accepting>>
    /\ batches \in [1..1 -> {IdleBatch(videos) : videos \in DeliveryLists(MaxBurst)}]

\* several webhooks of any kind, overlapping calls
Fan ==
    /\ webhooks \in {[e \in 1..n |-> NewWebhook] : n \in 2..MaxWebhooks}
    /\ server \in [DOMAIN webhooks -> Servers]
    /\ batches \in UNION {[1..n -> {IdleBatch(videos) : videos \in DeliveryLists(MaxFanLen)}] :
                              n \in 1..MaxFanLen}
    /\ Payloads(batches) <= MaxFanLen

Init ==
    /\ CacheIdle
    /\ now = 0
    /\ Overlap \/ Burst \/ Fan

Next == Post \/ Wake \/ Respond \/ Retry \/ Tick

Spec == Init /\ [][Next]_vars

\* time passes up to the next timer of a webhook, when no response is awaited
Jump ==
    LET timers == UNION {{webhooks[e].loops[i].wakeAt :
                             i \in {k \in DOMAIN webhooks[e].loops :
                                        webhooks[e].loops[k].pc # "fetch"}} :
                         e \in DOMAIN webhooks}
    IN  /\ \A e \in DOMAIN webhooks : \A i \in DOMAIN webhooks[e].loops :
               webhooks[e].loops[i].pc # "fetch"
        /\ timers # {}
        /\ \A t \in timers : t > now
        /\ now' = CHOOSE t \in timers : \A u \in timers : t <= u
        /\ UNCHANGED <<webhooks, batches, server, cacheVars, storeVars, processVars>>

\* one webhook with overlapping calls and any response, or with one long list that is
\* accepted; every call is made, every response comes and every timer fires
LiveInit ==
    /\ CacheIdle
    /\ now = 0
    /\ Overlap \/ Burst

LiveNext == Post \/ Wake \/ Respond \/ Retry \/ Jump

LiveSpec == LiveInit /\ [][LiveNext]_vars /\ WF_vars(LiveNext)

\* a remote end that accepts, or fails with a transport error
Unsteady == {r \in Responses : r.kind \in {"ok", "TypeError"}}

\* one webhook behind an unsteady remote end, one call with a long list
LimitInit ==
    /\ CacheIdle
    /\ now = 0
    /\ webhooks = <<NewWebhook>>
    /\ server = <<Unsteady>>
    /\ batches \in [1..1 -> {IdleBatch(videos) : videos \in DeliveryLists(MaxBurst)}]

LimitSpec == LimitInit /\ [][Next]_vars

\* a remote end that also answers 429 with Retry-After: 2
Throttling == Responses \cup {[kind |-> "429", retryAfter |-> <<2>>]}

\* one webhook behind a throttling remote end, one call
RetryInit ==
    /\ CacheIdle
    /\ now = 0
    /\ webhooks = <<NewWebhook>>
    /\ server = <<Throttling>>
    /\ batches \in [1..1 -> {IdleBatch(videos) : videos \in DeliveryLists(MaxPayloads)}]

RetryRespond ==
    \E e \in DOMAIN webhooks : \E i \in DOMAIN webhooks[e].loops :
        \E response \in Throttling : FetchDone(e, i, response)

RetryNext == Post \/ RetryRespond \/ Retry \/ Tick

RetrySpec == RetryInit /\ [][RetryNext]_vars

\* the feed as it grows: the newest n videos, for every n
Feeds == DeliveryLists(MaxVideoId)

\* A cache fresh from its constructor, with or without a state file; the path may hold
\* anything that is not a state file.
StoreInit ==
    /\ runMode \in Modes
    /\ seenVideoIds = {}
    /\ latestVideoTimestamps = <<>>
    /\ call = NoCall
    /\ now = 0
    /\ webhooks = <<NewWebhook>>
    /\ batches = <<>>
    /\ server = <<Responses>>
    /\ cacheFile \in {NoFile, StateFile}
    /\ disk \in BadFiles
    /\ lastSaveTime = 0
    /\ writes = <<>>
    /\ written = NothingWritten
    /\ NoProcess

\* no save waits for its write
Settled == writes = <<>>

StoreProcess == Settled /\ \E videos \in Feeds : ProcessVideos(videos)

StoreCleanup == Settled /\ \E maxEntries \in 1..MaxEntries : Cleanup(maxEntries)

StoreSave == \E force \in BOOLEAN : Save(force)

StoreWritten ==
    \E i \in DOMAIN writes : \E fulfilled \in BOOLEAN :
        WriteFileDone(i, fulfilled) /\ UNCHANGED processVars

\* the cache, its cleanup and its state file, without the clock
StoreNext == StoreProcess \/ StoreCleanup \/ StoreSave \/ StoreWritten \/ Initialize

StoreSpec == StoreInit /\ [][StoreNext]_vars

\* the saves of a cache with a state file, under the clock
ThrottleInit ==
    /\ StoreInit
    /\ runMode = "development"
    /\ cacheFile = StateFile
    /\ disk = Absent

ThrottleNext == StoreProcess \/ StoreSave \/ StoreWritten \/ Elapse

ThrottleSpec == ThrottleInit /\ [][ThrottleNext]_vars

\* The process with one webhook whose server is up or down, a state file, and feeds that
\* come to hold MaxFeed videos: started, signalled and started again.
LifeInit ==
    /\ runMode \in {"production", "development"}
    /\ seenVideoIds = {}
    /\ latestVideoTimestamps = <<>>
    /\ call = NoCall
    /\ now = 0
    /\ webhooks = <<NewWebhook>>
    /\ batches = <<>>
    /\ server \in {<<{[kind |-> "ok", retryAfter |-> <<>>]}>>,
                   <<{[kind |-> "500", retryAfter |-> <<>>]}>>}
    /\ cacheFile = StateFile
    /\ disk = Absent
    /\ lastSaveTime = 0
    /\ writes = <<>>
    /\ written = NothingWritten
    /\ NoProcess

LifeFetched == ~MicrotaskDue /\ \E c \in DOMAIN cycles : \E failure \in Failures \cup {"none", "sources"} : FetchAllDone(c, failure)

LifeSaves == \E c \in DOMAIN cycles : CycleSaves(c)

LifeWritten == ~MicrotaskDue /\ \E i \in DOMAIN writes : \E fulfilled \in BOOLEAN : WriteDone(i, fulfilled)

LifeResponds == Alive /\ ~MicrotaskDue /\ Respond

LifeRetries == Alive /\ ~MicrotaskDue /\ Retry

LifeNext ==
    \/ Start
    \/ ~MicrotaskDue /\ Started
    \/ ~MicrotaskDue /\ IntervalFires
    \/ LifeFetched
    \/ LifeSaves
    \/ LifeWritten
    \/ LifeResponds
    \/ LifeRetries
    \/ ~MicrotaskDue /\ Signal
    \/ ShutdownGoesOn
    \/ ~MicrotaskDue /\ GraceOver
    \/ ~MicrotaskDue /\ Advance

LifeSpec == LifeInit /\ [][LifeNext]_vars

\* what the event loop of a process does by itself: promises settle (feeds, Discord, the file
\* system), continuations run, timers fire when they are due
EventLoop ==
    \/ LifeFetched
    \/ LifeSaves
    \/ LifeWritten
    \/ LifeResponds
    \/ LifeRetries
    \/ ShutdownGoesOn
    \/ ~MicrotaskDue /\ GraceOver
    \/ ~MicrotaskDue /\ Advance

\* the process with an event loop that does not stop while it has something to do
LifeLiveSpec == LifeSpec /\ WF_vars(EventLoop)

----------------------------------------------------------------------------
(* Properties of VideoCache.processVideos (CacheSpec) *)

Called == call.mode # "none"

BootstrapQuiet == Called /\ call.isInitialRun /\ call.mode = "production"

Sampled == Called /\ ~BootstrapQuiet /\ call.mode = "development"

Full == Called /\ ~BootstrapQuiet /\ call.mode # "development"

\* C1: under every policy processVideos returns no item whose identity was in seen before the
\* call, and every identity that was in seen before the call is still in seen after it.
C1_SeenNeverReturned ==
    /\ \A i \in 1..Len(call.result) : call.result[i].id \notin call.seenBefore
    /\ call.seenBefore \subseteq seenVideoIds

\* a call that was given a seen item together with new ones, and returned something
C1_Witness ==
    /\ Called
    /\ \E i \in 1..Len(call.videos) : call.videos[i].id \in call.seenBefore
    /\ call.result # <<>>

\* C9: on the initial production run processVideos returns the empty list and leaves seen
\* equal to the set of the identities of the input items.
C9_BootstrapQuiet ==
    BootstrapQuiet => call.result = <<>> /\ seenVideoIds = Ids(call.videos)

\* an initial production run over a list with several identities
C9_Witness == BootstrapQuiet /\ Cardinality(Ids(call.videos)) >= 2

\* the input items whose identity was not seen before the call, in input order
UnseenOf(c) == SelectSeq(c.videos, LAMBDA video : video.id \notin c.seenBefore)

\* C10: under the full policy processVideos returns exactly the input items whose identity is
\* not in seen, in input order, and marks their identities as seen; a further call with the
\* same input list returns the empty list and leaves seen unchanged.
C10_FullPolicy ==
    /\ [](Full => /\ call.result = UnseenOf(call)
                  /\ seenVideoIds = call.seenBefore \cup Ids(call.result))
    /\ [][Full /\ call'.videos = call.videos
            => call'.result = <<>> /\ seenVideoIds' = seenVideoIds]_vars

\* a full-policy call that returned several items and held back a seen one
C10_Witness == Full /\ Len(call.result) >= 2 /\ Len(call.videos) > Len(call.result)

\* the positions of the input list that hold the first unseen item of their source
FirstOfSource(c) ==
    {i \in 1..Len(c.videos) :
        /\ c.videos[i].id \notin c.seenBefore
        /\ \A j \in 1..(i - 1) :
              c.videos[j].id \notin c.seenBefore => SourceKey(c.videos[j]) # SourceKey(c.videos[i])}

\* the items of a list at the given positions, in the order of the list
RECURSIVE ItemsAt(_, _, _)
ItemsAt(seq, positions, i) ==
    IF i > Len(seq) THEN <<>>
    ELSE (IF i \in positions THEN <<seq[i]>> ELSE <<>>) \o ItemsAt(seq, positions, i + 1)

\* C11: under the sampled policy processVideos returns, for every source with an unseen item
\* in the input, exactly the first unseen item of that source, in input order, and afterwards
\* every unseen input item is in seen, sampled or not.
C11_SampledPolicy ==
    Sampled => /\ call.result = ItemsAt(call.videos, FirstOfSource(call), 1)
               /\ seenVideoIds = call.seenBefore \cup Ids(UnseenOf(call))

\* a sampled call over two unseen items of one source and one of another
C11_Witness ==
    /\ Sampled
    /\ Len(UnseenOf(call)) = 3
    /\ Len(call.result) = 2
    /\ SourceKey(call.result[1]) # SourceKey(call.result[2])

\* C26: the policy of a call is bootstrap-quiet (nothing returned, every candidate marked) iff
\* seen was empty and the mode is production; in development mode it is the sampled policy,
\* also on an empty cache; in every other case it is the full policy.
C26_PolicySelection ==
    Called =>
        IF call.seenBefore = {} /\ call.mode = "production"
        THEN call.result = <<>> /\ seenVideoIds = Ids(call.videos)
        ELSE /\ seenVideoIds = call.seenBefore \cup Ids(call.videos)
             /\ call.result = IF call.mode = "development"
                              THEN ItemsAt(call.videos, FirstOfSource(call), 1)
                              ELSE UnseenOf(call)

\* the sampled policy on an empty cache: one of two unseen videos of a source is returned
C26_Witness ==
    /\ call.mode = "development"
    /\ call.seenBefore = {}
    /\ Len(call.result) >= 1
    /\ Len(call.result) < Len(UnseenOf(call))

\* C34: under the full and the sampled policy no identity is twice in the list one
\* processVideos call returns, also when the input holds the same video from its channel feed
\* and from a playlist feed.
C34_NoDuplicateInResult ==
    Sampled \/ Full =>
        \A i \in 1..Len(call.result) : \A j \in 1..Len(call.result) :
            i # j => call.result[i].id # call.result[j].id

----------------------------------------------------------------------------
(* Properties of the cache and its state file (StoreSpec, ThrottleSpec) *)

\* the last call on the cache was processVideos
Processed == call.mode \in Modes

\* the published dates of the videos of a list that come from one source
DatesOf(videos, sourceKey) ==
    {DateOf(videos[i].published) : i \in {j \in 1..Len(videos) : SourceKey(videos[j]) = sourceKey}}

\* a list has videos of the source, all of them older than the given date
OlderThan(videos, sourceKey, date) ==
    /\ DatesOf(videos, sourceKey) # {}
    /\ \A d \in DatesOf(videos, sourceKey) : d < date

\* C12: as long as the cache lives, whatever processVideos, cleanup and save do, the timestamp
\* stored for a source key stays or moves forward, and a list whose videos of that source are
\* all older than the stored timestamp leaves it as it is.
C12_LatestMonotone ==
    [][~Initialize =>
          \A k \in DOMAIN latestVideoTimestamps :
              /\ k \in DOMAIN latestVideoTimestamps'
              /\ DateParse(latestVideoTimestamps'[k]) >= DateParse(latestVideoTimestamps[k])
              /\ call'.mode \in Modes
                    /\ OlderThan(call'.videos, k, DateParse(latestVideoTimestamps[k]))
                 => latestVideoTimestamps'[k] = latestVideoTimestamps[k]]_vars

\* processVideos was given only older videos of a source than the cache had seen of it
C12_Witness ==
    /\ Processed
    /\ \E k \in DOMAIN latestVideoTimestamps :
          OlderThan(call.videos, k, DateParse(latestVideoTimestamps[k]))

\* the n largest strings of a set
Largest(set, n) ==
    CHOOSE kept \in SUBSET set :
        /\ Cardinality(kept) = n
        /\ \A x \in kept : \A y \in set \ kept : StringLess(y, x)

\* C18: cleanup(maxEntries) with maxEntries >= 1 leaves of a seen set with more than maxEntries
\* identities exactly the maxEntries lexicographically largest, and leaves a seen set with
\* maxEntries identities or fewer as it is.
C18_CleanupKeepsLargest ==
    call.mode = "cleanup" =>
        seenVideoIds = IF Cardinality(call.seenBefore) > call.maxEntries
                       THEN Largest(call.seenBefore, call.maxEntries)
                       ELSE call.seenBefore

\* cleanup(1) of three identities kept the one that is largest as a string, which is not the
\* longest
C18_Witness ==
    /\ call.mode = "cleanup"
    /\ call.maxEntries = 1
    /\ Cardinality(call.seenBefore) = 3
    /\ \E x \in seenVideoIds : \E y \in call.seenBefore : Len(y) > Len(x)

\* the last call on the cache was initialize, on a cache fresh from its constructor
Initialized == call.mode = "initialize"

\* C16: a forced save followed by initialize of a fresh cache on the same file gives a cache
\* with the same seen set and the same latestVideoTimestamps map as the saved cache had.
C16_RoundTrip ==
    Initialized /\ written.saved =>
        /\ seenVideoIds = written.seenVideoIds
        /\ latestVideoTimestamps = written.latestVideoTimestamps

\* a fresh cache has loaded what a forced save wrote of several identities and several sources
C16_Witness ==
    /\ Initialized
    /\ written.saved
    /\ written.force
    /\ Cardinality(seenVideoIds) >= 2
    /\ Cardinality(DOMAIN latestVideoTimestamps) >= 2

\* C17: initialize never throws; with the state file missing, unreadable or corrupt it leaves
\* the cache empty, so that isInitialRun is true.
C17_InitializeNeverThrows ==
    Initialized =>
        /\ ~call.thrown
        /\ call.file \in {"absent", "unreadable", "garbage", "null"} =>
              /\ seenVideoIds = {}
              /\ latestVideoTimestamps = <<>>
              /\ isInitialRun(seenVideoIds)

\* initialize has met a file that a failed write of a non-empty cache cut short
C17_Witness ==
    /\ Initialized
    /\ call.file = "garbage"
    /\ written.seenVideoIds # {}

\* C15: two writes of the state file that non-forced saves start are at least 30000 ms apart,
\* also when two save calls are in progress at the same time.
C15_Throttle == written.closest >= saveIntervalMs

\* C32: save never throws and never alters the cache: a rejected write is only logged,
\* seenVideoIds and latestVideoTimestamps stay as they are and lastSaveTime is not advanced,
\* so a non-forced save that was due stays due and writes again without a wait of 30000 ms.
C32_FailedSaveChangesNothing ==
    /\ [](~written.thrown)
    /\ [][\A i \in DOMAIN writes :
              WriteFileDone(i, FALSE) =>
                  /\ seenVideoIds' = seenVideoIds
                  /\ latestVideoTimestamps' = latestVideoTimestamps
                  /\ lastSaveTime' = lastSaveTime
                  /\ ~saveSkips(cacheFile, lastSaveTime, writes[i].now, FALSE)
                         => ~saveSkips(cacheFile', lastSaveTime', now', FALSE)]_vars

\* the write of a non-forced save was rejected and the next non-forced save, called at the
\* same time with no other write in progress, has started its write
C32_Witness ==
    /\ written.failedAt # NoTime
    /\ seenVideoIds # {}
    /\ \E i \in DOMAIN writes :
           /\ ~writes[i].force
           /\ ~writes[i].raced
           /\ writes[i].now = written.failedAt
           /\ lastSaveTime < writes[i].now

\* C36: an identity that a processVideos call on a cache has returned is not returned by a
\* later call on that cache, whatever processVideos and cleanup calls come in between.
C36_NeverReturnedAgain ==
    call.mode \in Modes => Ids(call.result) \cap call.returnedBefore = {}

----------------------------------------------------------------------------
(* Properties of the dispatch queue and the fan-out (Spec) *)

Hooks == DOMAIN webhooks

\* the request of item k of call b
RequestOf(b, k) == Request(batches[b].videos[k], b, k)

IsPrefix(s, t) == Len(s) <= Len(t) /\ SubSeq(t, 1, Len(s)) = s

\* C2: a webhook never has more than 5 HTTP POSTs within 2000 ms, retries and failed
\* attempts included.
C2_QuotaOnTheWire == \A e \in Hooks : Len(webhooks[e].posts) <= 5

C4_SingleWorker == \A e \in Hooks : Len(webhooks[e].loops) <= 1

\* postVideoNotification was called while the loop was in a backoff sleep; the request waits
C4_Witness ==
    \E e \in Hooks :
        /\ Len(webhooks[e].loops) = 1
        /\ webhooks[e].loops[1].pc = "backoff"
        /\ Len(webhooks[e].requestQueue) > 0
        /\ webhooks[e].isProcessing

\* C5: a request gets at most 4 HTTP POSTs; after the 4th has failed no retry is scheduled,
\* the promise is rejected with the error of that last attempt, and no POST follows.
C5_AtMostFourAttempts ==
    \A e \in Hooks :
        /\ \A i \in DOMAIN webhooks[e].loops :
              /\ webhooks[e].loops[i].posted <= 4
              /\ webhooks[e].loops[i].pc = "backoff" => webhooks[e].loops[i].posted < 4
        /\ webhooks[e].last.posted <= 4
        /\ webhooks[e].last.outcome \notin {"none", "ok"}
              => webhooks[e].last.outcome = ErrorOf(webhooks[e].last.response)
        /\ ~webhooks[e].reposted

\* a request rejected with a transport error at its 4th attempt
C5_Witness ==
    \E e \in Hooks : webhooks[e].last.posted = 4 /\ webhooks[e].last.outcome = "TypeError"

\* C6: postVideoNotification of the multi-webhook returns, once every webhook has settled the
\* item, one outcome per webhook in index order, with success exactly for the webhooks that
\* delivered it.
C6_OneOutcomePerWebhook ==
    \A b \in DOMAIN batches :
        /\ \A k \in 1..Len(batches[b].videos) :
              (\A e \in Hooks : RequestOf(b, k) \in webhooks[e].done)
                  => k <= Len(batches[b].allResults)
        /\ \A k \in 1..Len(batches[b].allResults) :
              LET results == batches[b].allResults[k].webhookResults
              IN  /\ DOMAIN results = Hooks
                  /\ \A e \in Hooks :
                        /\ results[e].webhookIndex = e - 1
                        /\ results[e].success <=> RequestOf(b, k) \in webhooks[e].delivered

\* an item that one webhook delivered and another one failed to deliver
C6_Witness ==
    \E b \in DOMAIN batches : \E k \in 1..Len(batches[b].allResults) :
        LET results == batches[b].allResults[k].webhookResults
        IN  \E e1 \in DOMAIN results : \E e2 \in DOMAIN results :
                results[e1].success /\ ~results[e2].success

\* webhook e has settled the current item of call b, which has more items to deliver
HeldBack(b, e) ==
    /\ batches[b].status = "running"
    /\ batches[b].idx < Len(batches[b].videos)
    /\ batches[b].outcome[e] # "pending"

\* C7 as stated: no webhook waits with the next item of a list for another webhook.
C7_NeverWaitsForAnother == \A b \in DOMAIN batches : \A e \in Hooks : ~HeldBack(b, e)

\* the loops of webhook e that hold request req
Holding(e, req) == {i \in DOMAIN webhooks[e].loops : webhooks[e].loops[i].req = req}

InQueue(e, req) == \E i \in DOMAIN webhooks[e].requestQueue : webhooks[e].requestQueue[i] = req

\* C7 amended: within the fan-out of one item no webhook waits for another: as long as the
\* item is pending on a webhook, that webhook's loop holds it or it waits in that webhook's
\* queue behind that webhook's own work.
C7_FanOutAtOnce ==
    \A b \in DOMAIN batches : \A e \in Hooks :
        batches[b].status = "running" /\ batches[b].outcome[e] = "pending"
            => \/ Holding(e, RequestOf(b, batches[b].idx)) # {}
               \/ InQueue(e, RequestOf(b, batches[b].idx)) /\ Len(webhooks[e].loops) > 0

\* one webhook has delivered the item while another is in a backoff sleep for it
C7_Witness ==
    \E b \in DOMAIN batches : \E e1 \in Hooks : \E e2 \in Hooks :
        /\ batches[b].status = "running"
        /\ batches[b].outcome[e1] = "ok"
        /\ batches[b].outcome[e2] = "pending"
        /\ \E i \in Holding(e2, RequestOf(b, batches[b].idx)) : webhooks[e2].loops[i].pc = "backoff"

\* C8: postVideoNotifications hands item k+1 to a webhook only after item k has settled on
\* every webhook, and its results are one entry per item in input order.
C8_OneItemAtATime ==
    /\ \A e \in Hooks : \A i \in 1..Len(webhooks[e].enq) :
          LET req == webhooks[e].enq[i]
          IN  \A k \in 1..(req.item - 1) : \A e2 \in Hooks :
                  RequestOf(req.batch, k) \in webhooks[e2].done
    /\ \A b \in DOMAIN batches :
          /\ Len(batches[b].allResults) =
                IF batches[b].status = "done" THEN Len(batches[b].videos)
                ELSE IF batches[b].status = "running" THEN batches[b].idx - 1 ELSE 0
          /\ \A k \in 1..Len(batches[b].allResults) :
                batches[b].allResults[k].videoId = batches[b].videos[k].id

\* a call over several webhooks that has returned the results of two items, one failed
C8_Witness ==
    \E b \in DOMAIN batches :
        /\ Cardinality(Hooks) >= 2
        /\ batches[b].status = "done"
        /\ Len(batches[b].allResults) >= 2
        /\ \E e \in Hooks : ~batches[b].allResults[1].webhookResults[e].success

\* what fetch rejects with when the request is cancelled
Aborted == [kind |-> "AbortError", retryAfter |-> <<>>]

\* C23: an attempt that ends with an AbortError is not retried, whatever its retry count: the
\* promise of the payload is rejected with that error in the same turn, no loop holds the
\* payload afterwards, and no POST is ever made for a payload that has settled.
C23_AbortNeverRetried ==
    /\ [](\A e \in Hooks : ~webhooks[e].reposted)
    /\ [][\A e \in Hooks : \A i \in DOMAIN webhooks[e].loops :
              FetchDone(e, i, Aborted) =>
                 LET loop == webhooks[e].loops[i]
                 IN  /\ loop.req \in webhooks'[e].done
                     /\ webhooks'[e].last.req = loop.req
                     /\ webhooks'[e].last.outcome = "AbortError"
                     /\ webhooks'[e].last.posted = loop.posted
                     /\ \A j \in DOMAIN webhooks'[e].loops :
                            webhooks'[e].loops[j].req # loop.req]_vars

\* a retry (the third POST for a payload) ended with an AbortError
C23_Witness ==
    \E e \in Hooks :
        /\ webhooks[e].last.response = Aborted
        /\ webhooks[e].last.outcome = "AbortError"
        /\ webhooks[e].last.posted = 3

\* the seconds a Retry-After header of decimal digits stands for
RECURSIVE Seconds(_)
Seconds(header) ==
    IF header = <<>> THEN 0 ELSE Seconds(SubSeq(header, 1, Len(header) - 1)) * 10 + header[Len(header)]

\* the backoff of the claim: Retry-After seconds for a 429 that carries the header, else
\* 1000 * 2^r ms after the attempt with retry count r
Schedule(response, r) ==
    IF response.kind = "429" /\ response.retryAfter # <<>>
    THEN Seconds(response.retryAfter) * 1000
    ELSE CASE r = 0 -> 1000 [] r = 1 -> 2000 [] r = 2 -> 4000

\* C25: when an attempt with retry count r is answered and a retry follows, r is 0, 1 or 2 and
\* the retry is due after 1000 * 2^r ms for a transport error, a non-2xx status other than
\* 429 and a 429 without Retry-After, and after s * 1000 ms for a 429 with Retry-After: s.
C25_BackoffSchedule ==
    [][\A e \in Hooks : \A i \in DOMAIN webhooks[e].loops : \A response \in server[e] :
          FetchDone(e, i, response) =>
             LET loop == webhooks[e].loops[i]
             IN  \A j \in DOMAIN webhooks'[e].loops :
                    LET next == webhooks'[e].loops[j]
                    IN  next.req = loop.req =>
                           /\ next.pc = "backoff"
                           /\ loop.retryCount \in 0..2
                           /\ next.retryCount = loop.retryCount
                           /\ next.wakeAt - now = Schedule(response, loop.retryCount)]_vars

\* a payload has failed after four POSTs, and the first retry of the next one is due 2000 ms
\* after a 429 with Retry-After: 2
C25_Witness ==
    \E e \in Hooks : \E i \in DOMAIN webhooks[e].loops :
        /\ webhooks[e].loops[i].pc = "backoff"
        /\ webhooks[e].loops[i].retryCount = 0
        /\ webhooks[e].loops[i].wakeAt - now = 2000
        /\ webhooks[e].last.posted = 4

\* the loops of a webhook that sleep for the rate limit
Sleeping(h) == {i \in DOMAIN h.loops : h.loops[i].pc = "sleep"}

\* C24: the worker waits only when 5 recorded sends lie within the last 2000 ms, and then for
\* 2000 - (now - oldest of them) ms, more than 0 and at most 2000; with fewer it sends at once.
\* No webhook ever has more than 5 recorded sends within 2000 ms.
C24_RecordedSendsLimit ==
    /\ [](\A e \in Hooks :
             LET sends == webhooks[e].requestTimestamps
             IN  /\ \A k \in DOMAIN sends : \A m \in DOMAIN sends :
                        m >= k + 5 => sends[m] - sends[k] >= 2000
                 /\ Sleeping(webhooks[e]) # {} => Len(sends) = 5)
    /\ [][\A e \in Hooks :
              Sleeping(webhooks[e]) = {} =>
                 \A i \in Sleeping(webhooks'[e]) :
                    LET sends == webhooks'[e].requestTimestamps
                        wait == webhooks'[e].loops[i].wakeAt - now
                    IN  /\ Len(sends) = 5
                        /\ \A k \in DOMAIN sends : now - sends[k] \in 0..1999
                        /\ wait = 2000 - (now - sends[1])
                        /\ wait \in 1..2000]_vars

\* the worker has waited for less than 2000 ms (the fifth send was recorded after the first)
\* and the sixth send is recorded, 2000 ms after the first
C24_Witness ==
    \E e \in Hooks :
        /\ Len(webhooks[e].requestTimestamps) = 6
        /\ webhooks[e].requestTimestamps[5] > webhooks[e].requestTimestamps[1]
        /\ webhooks[e].requestTimestamps[6] - webhooks[e].requestTimestamps[1] = 2000

\* every request that was enqueued has settled and no loop is at work
AllSettled ==
    \A e \in Hooks :
        /\ \A k \in DOMAIN webhooks[e].enq : webhooks[e].enq[k] \in webhooks[e].done
        /\ webhooks[e].loops = <<>>
        /\ webhooks[e].requestQueue = <<>>

\* C22: when every HTTP attempt returns, every enqueued payload is settled in the end, once:
\* no loop holds a settled payload, and a queue is never left non-empty without a loop at work.
C22_EverySendSettles ==
    /\ [](\A e \in Hooks :
             /\ webhooks[e].requestQueue # <<>> => webhooks[e].loops # <<>>
             /\ \A i \in DOMAIN webhooks[e].loops :
                    webhooks[e].loops[i].req \notin webhooks[e].done
             /\ ~webhooks[e].reposted)
    /\ <>[]AllSettled

\* a payload that was enqueued while the worker was at work has been delivered after the
\* payload before it had failed for good, 7000 ms of backoff later
C22_Witness ==
    \E e \in Hooks :
        /\ Len(webhooks[e].enq) = 2
        /\ webhooks[e].enq[2] \in webhooks[e].behind \cap webhooks[e].delivered
        /\ webhooks[e].enq[1] \in webhooks[e].done \ webhooks[e].delivered
        /\ now >= 7000
        /\ AllSettled

\* an event of webhook e: a sleep or a backoff of one of its loops ends, or its fetch settles
EventOn(e) ==
    \E i \in DOMAIN webhooks[e].loops :
        \/ SleepDone(e, i)
        \/ BackoffDone(e, i)
        \/ \E response \in Responses : FetchDone(e, i, response)

\* C31: webhooks share no dispatch state: an event of one webhook (the end of a rate-limit
\* sleep, a response, a failure, a retry) leaves every other webhook as it is, but for the
\* enqueue of the next video on that webhook by its own postVideoNotification.
C31_WebhooksAreIndependent ==
    [][\A e \in Hooks : \A other \in Hooks \ {e} :
           EventOn(e) =>
               \/ webhooks'[other] = webhooks[other]
               \/ /\ Len(webhooks'[other].enq) = Len(webhooks[other].enq) + 1
                  /\ webhooks'[other] =
                         postVideoNotification(webhooks[other], now,
                             webhooks'[other].enq[Len(webhooks'[other].enq)])]_vars

\* one webhook has recorded a send and is idle while the other is still at work on the same
\* video with nothing recorded
C31_Witness ==
    \E e \in Hooks : \E other \in Hooks \ {e} :
        /\ webhooks[e].requestTimestamps # <<>>
        /\ ~webhooks[e].isProcessing
        /\ webhooks[other].requestTimestamps = <<>>
        /\ webhooks[other].isProcessing
        /\ webhooks[other].last.posted = 0
        /\ \E i \in DOMAIN webhooks[other].loops : webhooks[other].loops[i].posted >= 2

\* C38: between two turns of the event loop a webhook with isProcessing false has an empty
\* queue, isProcessing is true exactly while a _processQueue loop is at work, and it is false
\* once every request has settled, whatever succeeded and whatever failed.
C38_FlagFollowsWorker ==
    \A e \in Hooks :
        /\ ~webhooks[e].isProcessing => Len(webhooks[e].requestQueue) = 0
        /\ webhooks[e].isProcessing <=> Len(webhooks[e].loops) > 0
        /\ (\A k \in DOMAIN webhooks[e].enq : webhooks[e].enq[k] \in webhooks[e].done)
               => ~webhooks[e].isProcessing

\* a webhook is idle after a request that was delivered and one that failed
C38_Witness ==
    \E e \in Hooks :
        /\ ~webhooks[e].isProcessing
        /\ webhooks[e].delivered # {}
        /\ webhooks[e].done \ webhooks[e].delivered # {}
        /\ \A k \in DOMAIN webhooks[e].enq : webhooks[e].enq[k] \in webhooks[e].done

----------------------------------------------------------------------------
(* Properties of the process (LifeSpec) *)

\* C13: with a state file, an item that a process delivered to a webhook before it shut down
\* gracefully is never delivered to that webhook again by a later process, also when the
\* signal came while a cycle was fetching or delivering.
C13_NoRedeliveryAfterRestart ==
    \A e \in DOMAIN webhooks : \A req \in webhooks[e].delivered : <<req.payload, e>> \notin past

\* C14: a polling cycle that handed videos to the webhooks has the state file written before
\* it returns, whatever the throttle says.
C14_SavedAfterDelivery == proc.returned > 0 => ~proc.unsaved

\* C19: what a polling cycle throws is caught: the process ends through a shutdown signal
\* only, and after a failed cycle it runs on with its interval set (until it is told to stop).
C19_FailedCycleIsCaught ==
    /\ proc.status = "exited" => proc.isShuttingDown
    /\ proc.failed > 0 =>
          proc.status = "running" /\ (proc.pollingInterval \/ proc.isShuttingDown)

\* a cycle failed, the next one started on schedule, delivered its video and returned
C19_Witness ==
    /\ proc.failed > 0
    /\ proc.returned > proc.failed
    /\ ~proc.isShuttingDown
    /\ \E e \in DOMAIN webhooks : webhooks[e].delivered # {}

\* C20: for a payload that is in flight or in backoff when the shutdown signal comes, no
\* further HTTP POST is made.
C20_NoPostAfterSignal ==
    \A s \in proc.atSignal : \A i \in DOMAIN webhooks[s[1]].loops :
        webhooks[s[1]].loops[i].req = s[2] => webhooks[s[1]].loops[i].posted <= s[3]

\* C29: a polling cycle that had videos and none to deliver (the first cycle in production mode
\* only marks them) has the state file written before it returns when 30 seconds or more have
\* passed since the last write.
C29_QuietCycleSaves ==
    proc.quiet.n > 0 /\ proc.quiet.timeSinceLastSave >= saveIntervalMs => proc.quiet.saved

\* C21: a process that shut down gracefully through the wait for its pending notifications,
\* its forced save fulfilled, leaves a state file that holds every id its cache held at the
\* end of the wait.
C21_FileHoldsCacheAfterDrain ==
    proc.status = "exited" /\ proc.exitCode = 0 /\ proc.shutdown = "grace" /\ proc.saved
        => proc.lost = {}

\* C27: the final outcome of every (video, webhook) pair handed to the webhooks is logged
\* exactly once: never twice while the process runs, and once for each pair by the time the
\* process has shut down gracefully.
C27_OutcomeLoggedOnce ==
    /\ \A b \in DOMAIN batches : \A key \in DOMAIN batches[b].logs :
           Len(batches[b].logs[key]) = 1
    /\ proc.status = "exited" /\ proc.exitCode = 0 => proc.unlogged = {}

C33_OnlyBacklogIsQuiet ==
    proc.backlog # NoTime /\ call.mode = "production" =>
        \A i \in DOMAIN call.videos :
            /\ \A k \in 1..proc.backlog : call.videos[i] # feedVideos(proc.backlog)[k]
            /\ call.videos[i].id \notin call.seenBefore
            => \E j \in DOMAIN call.result : call.result[j] = call.videos[i]

C39_ShutdownTerminates ==
    /\ (Alive /\ proc.isShuttingDown) ~> proc.status = "exited"
    /\ [](proc.shutdown = "grace" /\ Alive =>
              now <= proc.exitAt /\ proc.exitAt - now <= graceMs)
    /\ [][Alive /\ proc.isShuttingDown /\ proc'.status # "exited" =>
              /\ proc'.pollingCycleCount = proc.pollingCycleCount
              /\ Len(cycles') <= Len(cycles)]_vars

\* a process has exited with code 0 after its wait while a notification was still on its way
\* to a webhook that answers 500
C39_Witness ==
    /\ proc.status = "exited"
    /\ proc.exitCode = 0
    /\ proc.shutdown = "grace"
    /\ proc.unlogged # {}
    /\ \E e \in DOMAIN server : \A r \in server[e] : r.kind = "500"

\* C28: at most one write of the state file is in progress at any time.
C28_OneWriteAtATime == Len(writes) <= 1

====
